---------------------------- MODULE Spec2Model ----------------------------
(***************************************************************************)
(* SnackTrack backend: the personalized assessment engine and the          *)
(* assessment record lifecycle.                                            *)
(*                                                                         *)
(* Numbers: nutrient amounts, heights and weights are modelled as          *)
(* integers (the thresholds of the code are integers, and the sets the     *)
(* inputs are drawn from hold both sides of every threshold).  A BMI is    *)
(* kept in hundredths, as toFixed(2) produces it.                          *)
(* Strings that the code searches (ingredient texts, allergy names) are    *)
(* sequences of one-character strings.                                     *)
(***************************************************************************)
EXTENDS Integers, Sequences, FiniteSets, TLC

VARIABLES
  users,        \* users table: user id -> row, or NoUser
  products,     \* products table with the joined nutrition_facts row
  assessments,  \* user_product_assessments table: a set of rows
  nextId,       \* source of fresh primary keys (UUIDV4)
  req,          \* in-flight assessProductForUser calls, one per request slot
  resp          \* the response of the operation that completed last

vars == <<users, products, assessments, nextId, req, resp>>

----------------------------------------------------------------------------
(* JavaScript values *)

\* a column that is NULL in the database (allowNull: true)
NULL == -1
\* a property that is absent from an object (undefined)
UNDEFINED == -2

\* JS truthiness of a number-or-null value
Truthy(x) == x # NULL /\ x # UNDEFINED /\ x # 0
\* x > n and x < n with the relational coercion of JS: null -> 0, undefined -> NaN
JsGt(x, n) == IF x = UNDEFINED THEN FALSE ELSE IF x = NULL THEN 0 > n ELSE x > n
JsLt(x, n) == IF x = UNDEFINED THEN FALSE ELSE IF x = NULL THEN 0 < n ELSE x < n
\* a || b
JsOr(a, b) == IF Truthy(a) THEN a ELSE b

Max(a, b) == IF a > b THEN a ELSE b
Min(a, b) == IF a < b THEN a ELSE b
\* Math.round on a value that is already an integer
MathRound(x) == x
\* Math.max(0, Math.min(100, x))
\* faulty variant: the score is returned without the final clamp
Unclamped(x) == x
Clamp0to100(x) == Max(0, Min(100, x))

----------------------------------------------------------------------------
(* Strings as sequences of characters *)

UpperChars == <<"A","B","C","D","E","F","G","H","I","J","K","L","M",
                "N","O","P","Q","R","S","T","U","V","W","X","Y","Z">>
LowerChars == <<"a","b","c","d","e","f","g","h","i","j","k","l","m",
                "n","o","p","q","r","s","t","u","v","w","x","y","z">>

ToLowerChar(c) ==
  IF \E i \in 1..Len(UpperChars) : UpperChars[i] = c
  THEN LowerChars[CHOOSE i \in 1..Len(UpperChars) : UpperChars[i] = c]
  ELSE c

\* String.prototype.toLowerCase
ToLowerCase(s) == [i \in 1..Len(s) |-> ToLowerChar(s[i])]

\* String.prototype.includes
Includes(hay, needle) ==
  \E i \in 0..(Len(hay) - Len(needle)) :
    \A j \in 1..Len(needle) : hay[i + j] = needle[j]

\* String.prototype.trim (spaces only occur as whitespace here)
RECURSIVE TrimLeft(_)
TrimLeft(s) == IF s # <<>> /\ Head(s) = " " THEN TrimLeft(Tail(s)) ELSE s
RECURSIVE TrimRight(_)
TrimRight(s) ==
  IF s # <<>> /\ s[Len(s)] = " " THEN TrimRight(SubSeq(s, 1, Len(s) - 1)) ELSE s
Trim(s) == TrimRight(TrimLeft(s))

\* String.prototype.split(','): the pieces between the commas
RECURSIVE SplitComma(_, _)
SplitComma(s, cur) ==
  IF s = <<>> THEN <<cur>>
  ELSE IF Head(s) = "," THEN <<cur>> \o SplitComma(Tail(s), <<>>)
  ELSE SplitComma(Tail(s), Append(cur, Head(s)))

\* Array.prototype.join(' ')
RECURSIVE JoinSpace(_)
JoinSpace(parts) ==
  IF parts = <<>> THEN <<>>
  ELSE IF Len(parts) = 1 THEN parts[1]
  ELSE parts[1] \o <<" ">> \o JoinSpace(Tail(parts))

----------------------------------------------------------------------------
(* User model methods (models/user.js) *)

\* calculateBMI: weight / (height/100)^2, toFixed(2); here in hundredths
calculateBMI(height, weight) ==
  IF Truthy(height) /\ Truthy(weight)
  THEN (2 * weight * 1000000 + height * height) \div (2 * height * height)
  ELSE NULL

\* getBMICategory: this.BMI || this.calculateBMI(), thresholds 18.5, 25, 30
getBMICategory(u) ==
  LET bmi == JsOr(u.BMI, calculateBMI(u.height, u.weight)) IN
    IF ~Truthy(bmi) THEN "Unknown"
    ELSE IF bmi < 1850 THEN "Underweight"
    ELSE IF bmi < 2500 THEN "Normal"
    ELSE IF bmi < 3000 THEN "Overweight"
    ELSE "Obese"

\* faulty variant: only the ingredient is searched for the allergy
hasAllergyOneWay(u, ingredient) ==
  \E k \in 1..Len(u.allergies) :
    Includes(ToLowerCase(ingredient), ToLowerCase(u.allergies[k]))

\* hasAllergy: bidirectional, case-insensitive containment against each allergy
hasAllergy(u, ingredient) ==
  IF Len(u.allergies) = 0 THEN FALSE
  ELSE \E k \in 1..Len(u.allergies) :
         \/ Includes(ToLowerCase(ingredient), ToLowerCase(u.allergies[k]))
         \/ Includes(ToLowerCase(u.allergies[k]), ToLowerCase(ingredient))

Forbidden_veg ==
  <<<<"m","e","a","t">>,
     <<"c","h","i","c","k","e","n">>,
     <<"b","e","e","f">>,
     <<"p","o","r","k">>,
     <<"f","i","s","h">>,
     <<"s","e","a","f","o","o","d">>>>

Forbidden_vegan ==
  <<<<"m","e","a","t">>,
     <<"c","h","i","c","k","e","n">>,
     <<"b","e","e","f">>,
     <<"p","o","r","k">>,
     <<"f","i","s","h">>,
     <<"s","e","a","f","o","o","d">>,
     <<"m","i","l","k">>,
     <<"e","g","g">>,
     <<"h","o","n","e","y">>,
     <<"c","h","e","e","s","e">>,
     <<"b","u","t","t","e","r">>,
     <<"y","o","g","u","r","t">>>>

Forbidden_paleo ==
  <<<<"g","r","a","i","n">>,
     <<"w","h","e","a","t">>,
     <<"r","i","c","e">>,
     <<"c","o","r","n">>,
     <<"l","e","g","u","m","e">>,
     <<"b","e","a","n">>,
     <<"d","a","i","r","y">>>>

Forbidden_gluten_free ==
  <<<<"w","h","e","a","t">>,
     <<"g","l","u","t","e","n">>,
     <<"b","a","r","l","e","y">>,
     <<"r","y","e">>,
     <<"m","a","l","t">>>>

Forbidden_dairy_free ==
  <<<<"m","i","l","k">>,
     <<"c","h","e","e","s","e">>,
     <<"b","u","t","t","e","r">>,
     <<"y","o","g","u","r","t">>,
     <<"c","r","e","a","m">>,
     <<"l","a","c","t","o","s","e">>>>

\* the restrictions table of isCompatibleWith; keto and unknown keys give []
restrictions(pref) ==
  CASE pref = "veg" -> Forbidden_veg
    [] pref = "vegan" -> Forbidden_vegan
    [] pref = "paleo" -> Forbidden_paleo
    [] pref = "gluten_free" -> Forbidden_gluten_free
    [] pref = "dairy_free" -> Forbidden_dairy_free
    [] OTHER -> <<>>

\* faulty variant: a forbidden term must be an ingredient of the list, whole
isCompatibleExact(u, ingredients) ==
  IF u.dietary_preferences = "none" THEN TRUE
  ELSE LET forbidden == restrictions(u.dietary_preferences)
       IN ~ \E k \in 1..Len(forbidden), i \in 1..Len(ingredients) :
              ToLowerCase(ingredients[i]) = forbidden[k]

\* isCompatibleWith(ingredients): ingredients is the array of trimmed pieces
isCompatibleWith(u, ingredients) ==
  IF u.dietary_preferences = "none" THEN TRUE
  ELSE LET ingredientText == ToLowerCase(JoinSpace(ingredients))
           forbidden == restrictions(u.dietary_preferences)
       IN ~ \E k \in 1..Len(forbidden) : Includes(ingredientText, forbidden[k])

----------------------------------------------------------------------------
(* NutritionFact model (models/user.js, third file of the bundle) *)

\* NutritionFact.calculateHealthScore: base 50, fixed bonuses and penalties
NutritionFact_calculateHealthScore(n) ==
  LET s0 == 50
      s1 == s0 + (IF JsGt(n.protein, 10) THEN 15 ELSE 0)
      s2 == s1 + (IF JsGt(n.fiber, 3) THEN 15 ELSE 0)
      s3 == s2 + (IF JsLt(n.sodium, 140) THEN 10 ELSE 0)
      s4 == s3 + (IF JsLt(n.sugar, 5) THEN 10 ELSE 0)
      s5 == s4 - (IF JsGt(n.sugar, 15) THEN 20 ELSE 0)
      s6 == s5 - (IF JsGt(n.sodium, 600) THEN 25 ELSE 0)
      s7 == s6 - (IF JsGt(n.saturated_fat, 5) THEN 15 ELSE 0)
      s8 == s7 - (IF JsGt(n.trans_fat, 0) THEN 30 ELSE 0)
  IN Clamp0to100(s8)

----------------------------------------------------------------------------
(* HealthAssessmentService (services/healthAssessmentService.js) *)

\* Math.round(a / b * 100) for a >= 0, b > 0
RoundPercent(a, b) == (200 * a + b) \div (2 * b)
\* the numeric value a nutrient gets in arithmetic: null -> 0
ToNumber(x) == IF x = NULL THEN 0 ELSE x

\* the activityMultipliers table of analyzeCalories, || 2000
dailyCalorieTarget(activityLevel) ==
  CASE activityLevel = "sedentary" -> 1800
    [] activityLevel = "lightly_active" -> 2000
    [] activityLevel = "moderately_active" -> 2200
    [] activityLevel = "very_active" -> 2400
    [] activityLevel = "extremely_active" -> 2600
    [] OTHER -> 2000

\* analyzeCalories: calories / target * 100 compared with 15, 10, 7
analyzeCalories(calories, activityLevel) ==
  LET target == dailyCalorieTarget(activityLevel)
      over(pct) == calories # UNDEFINED /\ ToNumber(calories) * 100 > pct * target
  IN [penalty |-> IF over(15) THEN 15 ELSE IF over(10) THEN 8
                  ELSE IF over(7) THEN 3 ELSE 0]

analyzeSodium(sodium, healthConditions) ==
  LET hasHypertension == "hypertension" \in healthConditions IN
    IF JsGt(sodium, 400)
    THEN [penalty |-> IF hasHypertension THEN 25 ELSE 15,
          flag |-> IF hasHypertension THEN "CRITICAL_SODIUM" ELSE "HIGH_SODIUM"]
    ELSE IF JsGt(sodium, 240)
    THEN [penalty |-> IF hasHypertension THEN 15 ELSE 8,
          flag |-> IF hasHypertension THEN "CAUTION_SODIUM" ELSE "none"]
    ELSE IF JsGt(sodium, 140)
    THEN [penalty |-> IF hasHypertension THEN 8 ELSE 3, flag |-> "none"]
    ELSE [penalty |-> 0, flag |-> "none"]

analyzeSugar(totalSugar, addedSugar, healthConditions) ==
  LET hasDiabetes == "diabetes" \in healthConditions
      relevantSugar == JsOr(addedSugar, totalSugar)
      limit == IF Truthy(addedSugar) THEN 25 ELSE 50
      basis == IF Truthy(addedSugar) THEN "added" ELSE "total"
  IN
    IF JsGt(relevantSugar, 15)
    THEN [penalty |-> IF hasDiabetes THEN 30 ELSE 20,
          flag |-> IF hasDiabetes THEN "CRITICAL_SUGAR" ELSE "HIGH_SUGAR",
          limit |-> limit, basis |-> basis]
    ELSE IF JsGt(relevantSugar, 10)
    THEN [penalty |-> IF hasDiabetes THEN 20 ELSE 12,
          flag |-> IF hasDiabetes THEN "CAUTION_SUGAR" ELSE "none",
          limit |-> limit, basis |-> basis]
    ELSE IF JsGt(relevantSugar, 5)
    THEN [penalty |-> IF hasDiabetes THEN 10 ELSE 5, flag |-> "none",
          limit |-> limit, basis |-> basis]
    ELSE [penalty |-> 0, flag |-> "none", limit |-> limit, basis |-> basis]

\* faulty variant: only the first fat finding is penalised
analyzeFatFirstOnly(totalFat, saturatedFat, transFat, healthConditions) ==
  LET hasHeartDisease == "heart_disease" \in healthConditions IN
    [penalty |-> IF JsGt(transFat, 0) THEN (IF hasHeartDisease THEN 25 ELSE 15)
                 ELSE IF JsGt(saturatedFat, 5) THEN (IF hasHeartDisease THEN 15 ELSE 10)
                 ELSE IF JsGt(saturatedFat, 3) THEN (IF hasHeartDisease THEN 8 ELSE 5)
                 ELSE IF JsGt(totalFat, 15) THEN 5
                 ELSE 0,
     flag |-> IF JsGt(transFat, 0) THEN "CONTAINS_TRANS_FAT" ELSE "none"]

analyzeFat(totalFat, saturatedFat, transFat, healthConditions) ==
  LET hasHeartDisease == "heart_disease" \in healthConditions
      trans == IF JsGt(transFat, 0) THEN (IF hasHeartDisease THEN 25 ELSE 15) ELSE 0
      sat == IF JsGt(saturatedFat, 5) THEN (IF hasHeartDisease THEN 15 ELSE 10)
             ELSE IF JsGt(saturatedFat, 3) THEN (IF hasHeartDisease THEN 8 ELSE 5)
             ELSE 0
      total == IF JsGt(totalFat, 15) THEN 5 ELSE 0
  IN [penalty |-> trans + sat + total,
      flag |-> IF JsGt(saturatedFat, 5) /\ hasHeartDisease THEN "CAUTION_SATURATED_FAT"
               ELSE IF JsGt(transFat, 0) THEN "CONTAINS_TRANS_FAT"
               ELSE "none"]

analyzeProtein(protein, fitnessGoals) ==
  LET isHighProteinGoal ==
        "muscle_gain" \in fitnessGoals \/ "weight_loss" \in fitnessGoals
  IN [bonus |-> IF JsGt(protein, 10) THEN (IF isHighProteinGoal THEN 8 ELSE 5)
                ELSE IF JsGt(protein, 5) THEN (IF isHighProteinGoal THEN 5 ELSE 3)
                ELSE IF JsGt(protein, 2) THEN 2
                ELSE 0]

analyzeFiber(fiber) ==
  [bonus |-> IF JsGt(fiber, 5) THEN 8 ELSE IF JsGt(fiber, 3) THEN 5
             ELSE IF JsGt(fiber, 1) THEN 2 ELSE 0]

\* the final Math.max(0, Math.min(100, Math.round(score))) of both services
BoundScore(score) == Clamp0to100(MathRound(score))

\* HealthAssessmentService.calculateHealthScore(user, nutrition).score
calculateHealthScore(user, nutrition) ==
  LET score == 100
        - analyzeCalories(nutrition.calories, user.activity_level).penalty
        - analyzeSodium(nutrition.sodium, user.health_conditions).penalty
        - analyzeSugar(nutrition.sugar, nutrition.added_sugar,
                       user.health_conditions).penalty
        - analyzeFat(nutrition.fat, nutrition.saturated_fat, nutrition.trans_fat,
                     user.health_conditions).penalty
        + analyzeProtein(nutrition.protein, user.fitness_goals).bonus
        + analyzeFiber(nutrition.fiber).bonus
  IN BoundScore(score)

----------------------------------------------------------------------------
(* ProductAssessmentService (services/productAssessmentService.js) *)

\* a product row loaded without a nutrition_facts row: product.nutrition is null
NoNutrition == [absent |-> TRUE]

\* checkAllergies: one warning per allergy found in the lowercased ingredient text
RECURSIVE checkAllergiesFrom(_, _, _)
checkAllergiesFrom(product, user, k) ==
  IF k > Len(user.allergies) THEN <<>>
  ELSE LET allergy == user.allergies[k]
           ingredients == ToLowerCase(product.ingredients)
           hit == hasAllergy(user, allergy) /\ Includes(ingredients, ToLowerCase(allergy))
       IN (IF hit
           THEN <<[allergen |-> allergy, severity |-> "high",
                   message |-> <<"Contains", allergy, "avoid this product">>]>>
           ELSE <<>>) \o checkAllergiesFrom(product, user, k + 1)

checkAllergies(product, user) == checkAllergiesFrom(product, user, 1)

\* checkDietaryCompatibility: split on ',', trim, then user.isCompatibleWith
checkDietaryCompatibility(product, user) ==
  IF product.ingredients = <<>> THEN TRUE
  ELSE LET pieces == SplitComma(ToLowerCase(product.ingredients), <<>>)
           ingredients == [i \in 1..Len(pieces) |-> Trim(pieces[i])]
       IN isCompatibleWith(user, ingredients)

\* faulty variant: the lose_weight adjustments exclude one another
adjustFirstMatchOnly(score, nutrition, user) ==
  CASE user.health_goals = "lose_weight" ->
         IF JsGt(nutrition.calories, 300) THEN score - 10
         ELSE IF JsGt(nutrition.protein, 15) THEN score + 10
         ELSE IF JsGt(nutrition.sugar, 10) THEN score - 15
         ELSE score
    [] user.health_goals = "gain_muscle" ->
         score + (IF JsGt(nutrition.protein, 20) THEN 15 ELSE 0)
               - (IF JsLt(nutrition.protein, 5) THEN 10 ELSE 0)
    [] user.health_goals = "improve_health" ->
         score + (IF JsGt(nutrition.fiber, 5) THEN 10 ELSE 0)
               - (IF JsGt(nutrition.sodium, 400) THEN 10 ELSE 0)
    [] OTHER -> score

adjustForHealthGoals(score, nutrition, user) ==
  CASE user.health_goals = "lose_weight" ->
         score - (IF JsGt(nutrition.calories, 300) THEN 10 ELSE 0)
               + (IF JsGt(nutrition.protein, 15) THEN 10 ELSE 0)
               - (IF JsGt(nutrition.sugar, 10) THEN 15 ELSE 0)
    [] user.health_goals = "gain_muscle" ->
         score + (IF JsGt(nutrition.protein, 20) THEN 15 ELSE 0)
               - (IF JsLt(nutrition.protein, 5) THEN 10 ELSE 0)
    [] user.health_goals = "improve_health" ->
         score + (IF JsGt(nutrition.fiber, 5) THEN 10 ELSE 0)
               - (IF JsGt(nutrition.sodium, 400) THEN 10 ELSE 0)
    [] OTHER -> score

\* the four score tiers shared by getRecommendation and the summary's closing
Tier(score) ==
  IF score >= 80 THEN "excellent"
  ELSE IF score >= 60 THEN "good"
  ELSE IF score >= 40 THEN "moderate"
  ELSE "avoid"

\* faulty variant: the tier thresholds are strict
TierStrict(score, hasAllergies) ==
  IF hasAllergies THEN "avoid"
  ELSE IF score > 80 THEN "excellent"
  ELSE IF score > 60 THEN "good"
  ELSE IF score > 40 THEN "moderate"
  ELSE "avoid"

\* faulty variant: the tier of the score decides alone
TierOnly(score, hasAllergies) == Tier(score)
getRecommendation(score, hasAllergies) ==
  IF hasAllergies THEN "avoid" ELSE Tier(score)

generateHealthRecommendations(product, user, nutrition) ==
  (IF Len(user.allergies) > 0 THEN <<"safety:check_allergens">> ELSE <<>>)
  \o (IF JsGt(nutrition.sodium, 600) THEN <<"nutrition:high_sodium">> ELSE <<>>)
  \o (IF JsGt(nutrition.sugar, 15) THEN <<"nutrition:high_sugar">> ELSE <<>>)
  \o (IF user.health_goals = "lose_weight" /\ JsGt(nutrition.calories, 200)
      THEN <<"goal:smaller_portions">> ELSE <<>>)

\* generateAssessmentSummary: the parts of the templated string, in order
generateAssessmentSummary(product, user, score, allergyWarnings, dietaryCompatible) ==
  [score |-> MathRound(score),
   allergy_clause |-> Len(allergyWarnings) > 0,
   dietary_clause |-> IF dietaryCompatible THEN "" ELSE user.dietary_preferences,
   closing |-> Tier(score)]

\* generatePersonalizedAssessment, for a product whose nutrition is present
\* faulty variant: the confidence grows with the number of stored assessments
generateFromHistory(product, user) ==
  LET nutrition == product.nutrition
      allergyWarnings == checkAllergies(product, user)
      dietaryCompatible == checkDietaryCompatibility(product, user)
      score == adjustForHealthGoals(
                 NutritionFact_calculateHealthScore(nutrition)
                   - (IF Len(allergyWarnings) > 0 THEN 30 ELSE 0)
                   - (IF dietaryCompatible THEN 0 ELSE 20), nutrition, user)
  IN [recommendation |-> getRecommendation(score, Len(allergyWarnings) > 0),
      personalized_score |-> BoundScore(score),
      allergy_warnings |-> allergyWarnings,
      dietary_compatible |-> dietaryCompatible,
      health_recommendations |-> generateHealthRecommendations(product, user, nutrition),
      assessment_summary |->
        generateAssessmentSummary(product, user, score, allergyWarnings, dietaryCompatible),
      confidence_score |-> 85 + Cardinality(assessments)]

\* faulty variant: the running score is clamped after every step
generateClampingEachStep(product, user) ==
  LET nutrition == product.nutrition
      base == NutritionFact_calculateHealthScore(nutrition)
      allergyWarnings == checkAllergies(product, user)
      s1 == Clamp0to100(IF Len(allergyWarnings) > 0 THEN base - 30 ELSE base)
      dietaryCompatible == checkDietaryCompatibility(product, user)
      s2 == Clamp0to100(IF ~dietaryCompatible THEN s1 - 20 ELSE s1)
      score == Clamp0to100(adjustForHealthGoals(s2, nutrition, user))
  IN [recommendation |-> getRecommendation(score, Len(allergyWarnings) > 0),
      personalized_score |-> BoundScore(score),
      allergy_warnings |-> allergyWarnings,
      dietary_compatible |-> dietaryCompatible,
      health_recommendations |-> generateHealthRecommendations(product, user, nutrition),
      assessment_summary |->
        generateAssessmentSummary(product, user, score, allergyWarnings, dietaryCompatible),
      confidence_score |-> 85]

generatePersonalizedAssessment(product, user) ==
  LET nutrition == product.nutrition
      base == NutritionFact_calculateHealthScore(nutrition)
      allergyWarnings == checkAllergies(product, user)
      s1 == IF Len(allergyWarnings) > 0 THEN base - 30 ELSE base
      dietaryCompatible == checkDietaryCompatibility(product, user)
      s2 == IF ~dietaryCompatible THEN s1 - 20 ELSE s1
      score == adjustForHealthGoals(s2, nutrition, user)
  IN [recommendation |-> getRecommendation(score, Len(allergyWarnings) > 0),
      personalized_score |-> BoundScore(score),
      allergy_warnings |-> allergyWarnings,
      dietary_compatible |-> dietaryCompatible,
      health_recommendations |-> generateHealthRecommendations(product, user, nutrition),
      assessment_summary |->
        generateAssessmentSummary(product, user, score, allergyWarnings, dietaryCompatible),
      confidence_score |-> 85]

----------------------------------------------------------------------------
(* Statistics over recommendation histograms (services/healthAnalyticsService.js
   and controllers/assessmentController.js).  A histogram is a function from
   the recommendations that occur to their counts. *)

\* the weights table; weights[recommendation] || 0
Weight(recommendation) ==
  CASE recommendation = "excellent" -> 100
    [] recommendation = "good" -> 75
    [] recommendation = "moderate" -> 50
    [] recommendation = "avoid" -> 25
    [] OTHER -> 0

\* the forEach over Object.entries(stats): totalWeightedScore += weight * count
RECURSIVE SumWeighted(_, _)
SumWeighted(stats, keys) ==
  IF keys = {} THEN 0
  ELSE LET k == CHOOSE x \in keys : TRUE
       IN Weight(k) * stats[k] + SumWeighted(stats, keys \ {k})

\* totalScans += count, and Object.values(stats).reduce((sum, count) => sum + count, 0)
RECURSIVE SumCounts(_, _)
SumCounts(stats, keys) ==
  IF keys = {} THEN 0
  ELSE LET k == CHOOSE x \in keys : TRUE
       IN stats[k] + SumCounts(stats, keys \ {k})

\* Math.round(a / b) for a >= 0 and b > 0
RoundDiv(a, b) == (2 * a + b) \div (2 * b)

\* faulty variant: the average is truncated
OverallHealthScoreTruncated(stats) ==
  LET totalWeightedScore == SumWeighted(stats, DOMAIN stats)
      totalScans == SumCounts(stats, DOMAIN stats)
  IN IF totalScans > 0 THEN totalWeightedScore \div totalScans ELSE 0

\* HealthAnalyticsService.calculateOverallHealthScore(stats)
HealthAnalyticsService_calculateOverallHealthScore(stats) ==
  LET totalWeightedScore == SumWeighted(stats, DOMAIN stats)
      totalScans == SumCounts(stats, DOMAIN stats)
  IN IF totalScans > 0 THEN RoundDiv(totalWeightedScore, totalScans) ELSE 0

\* AssessmentController.calculateOverallHealthScore(stats): the same body
AssessmentController_calculateOverallHealthScore(stats) ==
  LET totalWeightedScore == SumWeighted(stats, DOMAIN stats)
      totalScans == SumCounts(stats, DOMAIN stats)
  IN IF totalScans > 0 THEN RoundDiv(totalWeightedScore, totalScans) ELSE 0

----------------------------------------------------------------------------
(* Energy and macronutrients (utils helpers, HealthService, and
   User.calculateDailyCalories).  A basal metabolic rate is kept in
   hundredths of a kcal, an activity multiplier in thousandths and a
   macronutrient share in percent; weights, heights and ages are integers. *)

\* a string column that is null
NullString == "null"

\* 10 * weight + 6.25 * height - 5 * age, in hundredths
MifflinBase(weight, height, age) == 1000 * weight + 625 * height - 500 * age

\* faulty variant: the sex constants are exchanged
calculateBMRSwapped(weight, height, age, gender) ==
  MifflinBase(weight, height, age) + (IF gender = "Male" THEN -16100 ELSE 500)

\* calculateBMR of the helpers: gender === 'Male' ? bmr + 5 : bmr - 161
calculateBMR(weight, height, age, gender) ==
  MifflinBase(weight, height, age) + (IF gender = "Male" THEN 500 ELSE -16100)

\* HealthService.calculateMifflinStJeor: the same expression
calculateMifflinStJeor(weight, height, age, gender) ==
  MifflinBase(weight, height, age) + (IF gender = "Male" THEN 500 ELSE -16100)

\* the activityMultipliers table of both paths, in thousandths; 0 when the
\* level is not a key (the lookup gives undefined)
activityMultipliers(level) ==
  CASE level = "sedentary" -> 1200
    [] level = "light" -> 1375
    [] level = "moderate" -> 1550
    [] level = "active" -> 1725
    [] level = "very_active" -> 1900
    [] OTHER -> 0

\* Math.round(bmr * multiplier) for a positive product
RoundProduct(bmr, multiplier) == RoundDiv(bmr * multiplier, 100000)

\* HealthService.calculateTDEE: activityMultipliers[activityLevel] || 1.2
calculateTDEE(bmr, activityLevel) ==
  RoundProduct(bmr, JsOr(activityMultipliers(activityLevel), 1200))

\* User.calculateDailyCalories: null without age, weight, height or gender;
\* -78 for a gender other than Male and Female; multiplier || 1.55
calculateDailyCalories(u) ==
  IF ~Truthy(u.age) \/ ~Truthy(u.weight) \/ ~Truthy(u.height) \/ u.gender = NullString
  THEN NULL
  ELSE LET bmr == MifflinBase(u.weight, u.height, u.age)
                    + (IF u.gender = "Male" THEN 500
                       ELSE IF u.gender = "Female" THEN -16100
                       ELSE -7800)
       IN RoundProduct(bmr, JsOr(activityMultipliers(u.activity_level), 1550))

\* HealthService.calculateCalorieNeeds: null without weight, height or age;
\* the TDEE scaled by 0.8 for lose_weight and by 1.1 for gain_muscle
calculateCalorieNeeds(user) ==
  IF ~Truthy(user.weight) \/ ~Truthy(user.height) \/ ~Truthy(user.age) THEN NULL
  ELSE LET bmr == calculateMifflinStJeor(user.weight, user.height, user.age, user.gender)
           tdee == calculateTDEE(bmr, user.activity_level)
       IN CASE user.health_goals = "lose_weight" -> RoundDiv(tdee * 8, 10)
            [] user.health_goals = "gain_muscle" -> RoundDiv(tdee * 11, 10)
            [] OTHER -> tdee

\* the percentages calculateMacros chooses for a goal
MacroSplit(healthGoal) ==
  CASE healthGoal = "lose_weight" -> [protein |-> 30, carbs |-> 35, fat |-> 35]
    [] healthGoal = "gain_muscle" -> [protein |-> 25, carbs |-> 45, fat |-> 30]
    [] healthGoal = "improve_health" -> [protein |-> 20, carbs |-> 50, fat |-> 30]
    [] OTHER -> [protein |-> 20, carbs |-> 50, fat |-> 30]

\* faulty variant: fat is converted at 4 kcal per gram as well
calculateMacrosFatAtFour(calories, healthGoal) ==
  LET split == MacroSplit(healthGoal) IN
    [protein |-> RoundDiv(calories * split.protein, 400),
     carbs |-> RoundDiv(calories * split.carbs, 400),
     fat |-> RoundDiv(calories * split.fat, 400),
     proteinCalories |-> RoundDiv(calories * split.protein, 100),
     carbCalories |-> RoundDiv(calories * split.carbs, 100),
     fatCalories |-> RoundDiv(calories * split.fat, 100)]

\* HealthService.calculateMacros
calculateMacros(calories, healthGoal) ==
  LET split == MacroSplit(healthGoal) IN
    [protein |-> RoundDiv(calories * split.protein, 400),
     carbs |-> RoundDiv(calories * split.carbs, 400),
     fat |-> RoundDiv(calories * split.fat, 900),
     proteinCalories |-> RoundDiv(calories * split.protein, 100),
     carbCalories |-> RoundDiv(calories * split.carbs, 100),
     fatCalories |-> RoundDiv(calories * split.fat, 100)]

----------------------------------------------------------------------------
(* Tables *)

Users == {"u1", "u2"}
Products == {"p1", "p3"}
\* slots for assessProductForUser calls that are in flight at the same time
Requests == {"r1", "r2"}
\* primary keys handed out before the model stops creating assessments
MaxIds == 2

\* no row for this primary key: findByPk returns null
NoUser == [absent |-> TRUE]

\* a text column that is NULL, and a body property that was not sent
NullText == [null |-> TRUE]
UndefinedText == [undefined |-> TRUE]
\* a string value: its length and its content
Text(len, content) == [len |-> len, content |-> content]
TextTruthy(t) == t # NullText /\ t # UndefinedText /\ t.len > 0

\* column defaults of User.init
DefaultUser ==
  [height |-> NULL, weight |-> NULL, BMI |-> NULL, allergies |-> <<>>,
   health_conditions |-> {}, dietary_preferences |-> "none",
   health_goals |-> "maintain", activity_level |-> "moderate"]

\* instance.set(data): the given attributes replace the row's
Merge(row, data) ==
  [f \in DOMAIN row |-> IF f \in DOMAIN data THEN data[f] ELSE row[f]]

\* user.changed(f) inside beforeUpdate
Changed(old, new, f) == old[f] # new[f]

\* the validate: {min, max} rules of height and weight; null is not validated
UserValid(row) ==
  /\ row.height = NULL \/ (row.height >= 50 /\ row.height <= 300)
  /\ row.weight = NULL \/ (row.weight >= 20 /\ row.weight <= 500)

normalizeList(list) == [i \in 1..Len(list) |-> Trim(ToLowerCase(list[i]))]

\* beforeCreate hook: BMI from height and weight, allergies normalised
beforeCreate(row) ==
  [row EXCEPT
     !.BMI = IF Truthy(row.height) /\ Truthy(row.weight)
             THEN calculateBMI(row.height, row.weight) ELSE @,
     !.allergies = normalizeList(@)]

\* beforeUpdate hook: BMI recomputed when height or weight changed and both are set
beforeUpdate(old, new) ==
  [new EXCEPT
     !.BMI = IF (Changed(old, new, "height") \/ Changed(old, new, "weight"))
                /\ Truthy(new.height) /\ Truthy(new.weight)
             THEN calculateBMI(new.height, new.weight) ELSE @,
     !.allergies = IF Changed(old, new, "allergies") THEN normalizeList(@) ELSE @]

\* the rows of a (user, product) pair
RowsOf(u, p) == {a \in assessments : a.user_id = u /\ a.product_id = p}
\* faulty variant: the rows of every user are counted
getRecommendationStatsOfAll(userId) ==
  [k \in {a.recommendation : a \in assessments} |->
     Cardinality({a \in assessments : a.recommendation = k})]

\* UserProductAssessment.getRecommendationStats: COUNT ... WHERE user_id
\* GROUP BY recommendation, reduced into an object
getRecommendationStats(userId) ==
  LET mine == {a \in assessments : a.user_id = userId}
  IN [k \in {a.recommendation : a \in mine} |->
        Cardinality({a \in mine : a.recommendation = k})]

\* faulty variant: the table has no unique index on the pair
NoUniqueIndex(u, p) == FALSE
\* the unique index unique_user_product_assessment of the migration
UniqueViolation(u, p) == RowsOf(u, p) # {}

\* UserProductAssessment.create: the new row
NewRow(id, u, p, data) ==
  [id |-> id, user_id |-> u, product_id |-> p,
   scan_method |-> "barcode", assessment_version |-> "1.0",
   recommendation |-> data.recommendation,
   personalized_score |-> data.personalized_score,
   allergy_warnings |-> data.allergy_warnings,
   dietary_compatible |-> data.dietary_compatible,
   health_recommendations |-> data.health_recommendations,
   assessment_summary |-> data.assessment_summary,
   confidence_score |-> data.confidence_score,
   user_rating |-> NULL, user_notes |-> NullText]

Idle == [pc |-> "idle"]

----------------------------------------------------------------------------
(* Operations *)

\* UserService.register -> User.create
CreateUser(u, data) ==
  /\ users[u] = NoUser
  /\ LET row == Merge(DefaultUser, data) IN
       IF UserValid(row)
       THEN /\ users' = [users EXCEPT ![u] = beforeCreate(row)]
            /\ resp' = [op |-> "register", status |-> "ok"]
       ELSE /\ users' = users
            /\ resp' = [op |-> "register", status |-> "error"]
  /\ UNCHANGED <<products, assessments, nextId, req>>

\* validateProfileUpdate: optional() skips undefined only; there is no rule
\* for BMI, so a body may carry it
HealthGoalValues == {"lose_weight", "gain_muscle", "maintain", "improve_health"}
ActivityLevelValues == {"sedentary", "light", "moderate", "active", "very_active"}
DietaryValues == {"veg", "vegan", "keto", "paleo", "gluten_free", "dairy_free", "none"}
validateProfileUpdate(body) ==
  /\ "weight" \in DOMAIN body =>
       body.weight # NULL /\ body.weight >= 30 /\ body.weight <= 300
  /\ "height" \in DOMAIN body =>
       body.height # NULL /\ body.height >= 100 /\ body.height <= 250
  /\ "health_goals" \in DOMAIN body => body.health_goals \in HealthGoalValues
  /\ "activity_level" \in DOMAIN body => body.activity_level \in ActivityLevelValues
  /\ "dietary_preferences" \in DOMAIN body => body.dietary_preferences \in DietaryValues

\* faulty variant: a profile update regenerates the user's stored assessments
updateAndReassess(u, updateData) ==
  IF users[u] = NoUser \/ ~UserValid(Merge(users[u], updateData))
  THEN /\ users' = users
       /\ resp' = [op |-> "updateProfile", status |-> "error", error |-> "rejected"]
       /\ assessments' = assessments
  ELSE LET row == beforeUpdate(users[u], Merge(users[u], updateData)) IN
       /\ users' = [users EXCEPT ![u] = row]
       /\ resp' = [op |-> "updateProfile", status |-> "ok"]
       /\ assessments' =
            {IF a.user_id = u
             THEN [NewRow(a.id, u, a.product_id,
                          generatePersonalizedAssessment(products[a.product_id], row))
                     EXCEPT !.user_rating = a.user_rating, !.user_notes = a.user_notes]
             ELSE a : a \in assessments}

\* UserService.updateUserProfile -> user.update(updateData)
updateUserProfile(u, updateData) ==
  /\ IF users[u] = NoUser
     THEN /\ users' = users
          /\ resp' = [op |-> "updateProfile", status |-> "error",
                      error |-> "User not found"]
     ELSE LET new == Merge(users[u], updateData) IN
            IF UserValid(new)
            THEN /\ users' = [users EXCEPT ![u] = beforeUpdate(users[u], new)]
                 /\ resp' = [op |-> "updateProfile", status |-> "ok"]
            ELSE /\ users' = users
                 /\ resp' = [op |-> "updateProfile", status |-> "error",
                             error |-> "Validation error"]
  /\ assessments' = assessments

\* PUT /api/users/profile: validateProfileUpdate, then the controller hands
\* req.body to the service
UpdateProfile(u, body) ==
  /\ IF ~validateProfileUpdate(body)
     THEN /\ resp' = [op |-> "updateProfile", status |-> "error",
                      error |-> "Validation failed"]
          /\ UNCHANGED <<users, assessments>>
     ELSE updateUserProfile(u, body)
  /\ UNCHANGED <<products, nextId, req>>

\* assessProductForUser, first await: the controller has loaded the product
\* (products never change), User.findByPk(userId)
Begin(r, u, p) ==
  /\ req[r] = Idle
  /\ nextId <= MaxIds
  /\ IF users[u] = NoUser
     THEN /\ req' = req
          /\ resp' = [op |-> "assess", status |-> "error", error |-> "User not found"]
     ELSE /\ req' = [req EXCEPT ![r] = [pc |-> "findOne", user_id |-> u,
                                        product_id |-> p, user |-> users[u]]]
          /\ resp' = resp
  /\ UNCHANGED <<users, products, assessments, nextId>>

\* faulty variant: an existing row is regenerated from the loaded profile
ReassessExisting(r, u, p) ==
  /\ \E a \in RowsOf(u, p) :
       /\ resp' = [op |-> "assess", status |-> "ok", created |-> FALSE, id |-> a.id]
       /\ assessments' =
            (assessments \ {a}) \cup
              {NewRow(a.id, u, p, generatePersonalizedAssessment(products[p], req[r].user))}
  /\ req' = [req EXCEPT ![r] = Idle]

\* if (existingAssessment) return existingAssessment
ReturnExisting(r, u, p) ==
  /\ \E a \in RowsOf(u, p) :
       resp' = [op |-> "assess", status |-> "ok", created |-> FALSE, id |-> a.id]
  /\ req' = [req EXCEPT ![r] = Idle]
  /\ assessments' = assessments

\* faulty variant: missing nutrition is scored as a perfect product
ScoreMissingAsPerfect(r, u, p) ==
  /\ req' = [req EXCEPT ![r] =
               [pc |-> "create", user_id |-> u, product_id |-> p, user |-> req[r].user,
                data |-> [recommendation |-> "excellent", personalized_score |-> 100,
                          allergy_warnings |-> <<>>, dietary_compatible |-> TRUE,
                          health_recommendations |-> <<>>,
                          assessment_summary |->
                            [score |-> 100, allergy_clause |-> FALSE,
                             dietary_clause |-> "", closing |-> "excellent"],
                          confidence_score |-> 85]]]
  /\ resp' = resp
  /\ assessments' = assessments

\* generatePersonalizedAssessment throws when product.nutrition is null; the
\* catch of assessProductForUser rethrows
NoNutritionError(r, u, p) ==
  /\ resp' = [op |-> "assess", status |-> "error",
              error |-> "Product nutrition data not available"]
  /\ req' = [req EXCEPT ![r] = Idle]
  /\ assessments' = assessments

\* the assessment data is generated from the loaded user and product
IssueCreate(r, u, p) ==
  /\ req' = [req EXCEPT ![r] =
               [pc |-> "create", user_id |-> u, product_id |-> p, user |-> req[r].user,
                data |-> generatePersonalizedAssessment(products[p], req[r].user)]]
  /\ resp' = resp
  /\ assessments' = assessments

\* second await: UserProductAssessment.findOne by user_id and product_id
FindOne(r) ==
  /\ req[r].pc = "findOne"
  /\ LET u == req[r].user_id
         p == req[r].product_id
     IN IF RowsOf(u, p) # {} THEN ReturnExisting(r, u, p)
        ELSE IF products[p].nutrition = NoNutrition THEN NoNutritionError(r, u, p)
        ELSE IssueCreate(r, u, p)
  /\ UNCHANGED <<users, products, nextId>>

\* third await: UserProductAssessment.create under the foreign key on user_id
\* and the unique index; a constraint error is rethrown as 'Assessment failed: ...'
Create(r) ==
  /\ req[r].pc = "create"
  /\ LET u == req[r].user_id
         p == req[r].product_id
     IN IF users[u] = NoUser
        THEN /\ resp' = [op |-> "assess", status |-> "error",
                         error |-> "foreign key constraint"]
             /\ UNCHANGED <<assessments, nextId>>
        ELSE IF UniqueViolation(u, p)
        THEN /\ resp' = [op |-> "assess", status |-> "error",
                         error |-> "Validation error"]
             /\ UNCHANGED <<assessments, nextId>>
        ELSE /\ assessments' = assessments \cup {NewRow(nextId, u, p, req[r].data)}
             /\ nextId' = nextId + 1
             /\ resp' = [op |-> "assess", status |-> "ok", created |-> TRUE,
                         id |-> nextId]
  /\ req' = [req EXCEPT ![r] = Idle]
  /\ UNCHANGED <<users, products>>

\* faulty variant: the route carries no rule for user_rating
AnyRating(rating) == TRUE

\* the route's validators: body('user_rating').optional().isInt({min: 1, max: 5})
\* and body('user_notes').optional().isLength({max: 500}); optional() skips
\* undefined only.  Ratings are held in tenths, so 25 is the JSON number 2.5.
RatingPasses(rating) ==
  rating = UNDEFINED \/ (rating # NULL /\ rating % 10 = 0 /\ rating >= 10 /\ rating <= 50)
NotesPass(notes) ==
  notes = UndefinedText \/ notes = NullText \/ notes.len <= 500

\* the model's rule on user_rating (validate min 1, max 5 on an INTEGER column)
AssessmentValid(a) ==
  a.user_rating = NULL
    \/ (a.user_rating % 10 = 0 /\ a.user_rating >= 10 /\ a.user_rating <= 50)

\* faulty variant: feedback also rewrites a computed column
feedbackRescore(a, rating, notes) ==
  [a EXCEPT !.user_rating = JsOr(rating, @),
            !.user_notes = IF TextTruthy(notes) THEN notes ELSE @,
            !.confidence_score = 100]

\* the attribute set updateAssessment passes to assessment.update
feedbackUpdate(a, rating, notes) ==
  [a EXCEPT !.user_rating = JsOr(rating, @),
            !.user_notes = IF TextTruthy(notes) THEN notes ELSE @]

\* PUT /api/assessments/:id : validators, validateRequest, updateAssessment
PutAssessment(caller, id, rating, notes) ==
  LET found == {a \in assessments : a.id = id /\ a.user_id = caller}
  IN
  /\ IF ~(RatingPasses(rating) /\ NotesPass(notes))
     THEN /\ resp' = [op |-> "updateAssessment", status |-> "error",
                      error |-> "Validation failed",
                      caller |-> caller, id |-> id, user_rating |-> rating,
                      user_notes |-> notes]
          /\ assessments' = assessments
     ELSE IF found = {}
     THEN /\ resp' = [op |-> "updateAssessment", status |-> "error",
                      error |-> "Assessment not found",
                      caller |-> caller, id |-> id, user_rating |-> rating,
                      user_notes |-> notes]
          /\ assessments' = assessments
     ELSE LET a == CHOOSE x \in found : TRUE
              new == feedbackUpdate(a, rating, notes)
          IN IF ~AssessmentValid(new)
             THEN /\ resp' = [op |-> "updateAssessment", status |-> "error",
                              error |-> "Validation error",
                              caller |-> caller, id |-> id, user_rating |-> rating,
                              user_notes |-> notes]
                  /\ assessments' = assessments
             ELSE /\ resp' = [op |-> "updateAssessment", status |-> "ok",
                              caller |-> caller, id |-> id, user_rating |-> rating,
                              user_notes |-> notes]
                  /\ assessments' = (assessments \ {a}) \cup {new}
  /\ UNCHANGED <<users, products, nextId, req>>

\* faulty variant: the assessment is looked up by id alone
GetAnyAssessment(caller, id) ==
  LET found == {a \in assessments : a.id = id} IN
  /\ IF found = {}
     THEN resp' = [op |-> "getAssessment", status |-> "error",
                   error |-> "Assessment not found", caller |-> caller, id |-> id]
     ELSE resp' = [op |-> "getAssessment", status |-> "ok", caller |-> caller, id |-> id,
                   data |-> [assessment |-> CHOOSE a \in found : TRUE,
                             product |-> (CHOOSE a \in found : TRUE).product_id]]
  /\ UNCHANGED <<users, products, assessments, nextId, req>>

\* GET /api/assessments/:id : findOne by id and user_id, then the detailed
\* report of the row and the product
GetAssessmentById(caller, id) ==
  LET found == {a \in assessments : a.id = id /\ a.user_id = caller} IN
  /\ IF found = {}
     THEN resp' = [op |-> "getAssessment", status |-> "error",
                   error |-> "Assessment not found", caller |-> caller, id |-> id]
     ELSE resp' = [op |-> "getAssessment", status |-> "ok", caller |-> caller, id |-> id,
                   data |-> [assessment |-> CHOOSE a \in found : TRUE,
                             product |-> (CHOOSE a \in found : TRUE).product_id]]
  /\ UNCHANGED <<users, products, assessments, nextId, req>>

\* DELETE /api/assessments/:id
DeleteAssessment(caller, id) ==
  LET found == {a \in assessments : a.id = id /\ a.user_id = caller} IN
  /\ IF found = {}
     THEN /\ resp' = [op |-> "deleteAssessment", status |-> "error",
                      error |-> "Assessment not found", caller |-> caller, id |-> id]
          /\ assessments' = assessments
     ELSE /\ resp' = [op |-> "deleteAssessment", status |-> "ok",
                      caller |-> caller, id |-> id]
          /\ assessments' = assessments \ found
  /\ UNCHANGED <<users, products, nextId, req>>

\* User.destroy on one row: the user_id foreign key of user_product_assessments
\* is declared onDelete CASCADE, so the database removes the user's assessments
RemoveUser(u) ==
  /\ users[u] # NoUser
  /\ users' = [users EXCEPT ![u] = NoUser]
  /\ assessments' = {a \in assessments : a.user_id # u}
  /\ resp' = [op |-> "removeUser", status |-> "ok"]
  /\ UNCHANGED <<products, nextId, req>>

\* HealthAssessmentService.assessProduct: without nutrition facts it throws;
\* with them its create() names no recommendation, which the column's
\* allowNull: false rejects, so the call throws and stores nothing
HealthAssessProduct(u, p) ==
  /\ users[u] # NoUser
  /\ resp' = [op |-> "assessProduct", status |-> "error",
              error |-> IF products[p].nutrition = NoNutrition
                        THEN "Nutrition facts not available for this product"
                        ELSE "notNull Violation"]
  /\ UNCHANGED <<users, products, assessments, nextId, req>>

\* GET /api/products/stats: productController.getUserAssessmentStats
GetUserAssessmentStats(u) ==
  LET stats == getRecommendationStats(u) IN
  /\ resp' = [op |-> "getUserStats", status |-> "ok", caller |-> u,
              totalScans |-> SumCounts(stats, DOMAIN stats),
              recommendations |-> stats,
              healthScore |-> HealthAnalyticsService_calculateOverallHealthScore(stats)]
  /\ UNCHANGED <<users, products, assessments, nextId, req>>

\* both copies of calculateOverallHealthScore applied to one histogram
OverallHealthScore(stats) ==
  /\ resp' = [op |-> "overallHealthScore", status |-> "ok", stats |-> stats,
              service |-> HealthAnalyticsService_calculateOverallHealthScore(stats),
              controller |-> AssessmentController_calculateOverallHealthScore(stats)]
  /\ UNCHANGED <<users, products, assessments, nextId, req>>

\* the energy figures of one profile: the helpers' calculateBMR, the
\* HealthService path and User.calculateDailyCalories
EnergyExpenditure(profile) ==
  /\ resp' = [op |-> "energy", status |-> "ok", profile |-> profile,
              bmr |-> calculateBMR(profile.weight, profile.height, profile.age,
                                   profile.gender),
              mifflin |-> calculateMifflinStJeor(profile.weight, profile.height,
                                                 profile.age, profile.gender),
              tdee |-> calculateTDEE(
                         calculateMifflinStJeor(profile.weight, profile.height,
                                                profile.age, profile.gender),
                         profile.activity_level),
              calorieNeeds |-> calculateCalorieNeeds(profile),
              dailyCalories |-> calculateDailyCalories(profile)]
  /\ UNCHANGED <<users, products, assessments, nextId, req>>

\* HealthService.calculateMacros(calories, healthGoal)
Macros(calories, healthGoal) ==
  /\ resp' = [op |-> "macros", status |-> "ok", calories |-> calories,
              healthGoal |-> healthGoal,
              macros |-> calculateMacros(calories, healthGoal)]
  /\ UNCHANGED <<users, products, assessments, nextId, req>>

\* user.hasAllergy(ingredient) on the stored user
HasAllergy(u, ingredient) ==
  /\ users[u] # NoUser
  /\ resp' = [op |-> "hasAllergy", status |-> "ok", user |-> u,
              ingredient |-> ingredient, result |-> hasAllergy(users[u], ingredient)]
  /\ UNCHANGED <<users, products, assessments, nextId, req>>

\* user.isCompatibleWith(ingredients) on the stored user
IsCompatibleWith(u, ingredients) ==
  /\ users[u] # NoUser
  /\ resp' = [op |-> "isCompatibleWith", status |-> "ok", user |-> u,
              ingredients |-> ingredients,
              result |-> isCompatibleWith(users[u], ingredients)]
  /\ UNCHANGED <<users, products, assessments, nextId, req>>

\* the breakdown.sugar and breakdown.fat entries calculateHealthScore returns
\* beside the score
healthBreakdown(user, nutrition) ==
  [sugar |-> analyzeSugar(nutrition.sugar, nutrition.added_sugar, user.health_conditions),
   fat |-> analyzeFat(nutrition.fat, nutrition.saturated_fat, nutrition.trans_fat,
                      user.health_conditions)]

\* the user object handed to calculateHealthScore
HealthProfile(row, fitnessGoals) ==
  [activity_level |-> row.activity_level,
   health_conditions |-> row.health_conditions,
   fitness_goals |-> fitnessGoals]

\* HealthAssessmentService.calculateHealthScore(user, nutrition)
CalculateHealthScore(u, p, fitnessGoals) ==
  /\ users[u] # NoUser
  /\ products[p].nutrition # NoNutrition
  /\ resp' = [op |-> "calculateHealthScore", status |-> "ok",
              score |-> calculateHealthScore(HealthProfile(users[u], fitnessGoals),
                                             products[p].nutrition),
              breakdown |-> healthBreakdown(HealthProfile(users[u], fitnessGoals),
                                            products[p].nutrition)]
  /\ UNCHANGED <<users, products, assessments, nextId, req>>

----------------------------------------------------------------------------
(* The service with a fixed catalogue: registration, profile updates,
   concurrent assessment requests, feedback and deletion *)

MilkBeef == <<"M","i","l","k",","," ","B","e","e","f">>
Milk == <<"M","i","l","k">>
Beef == <<" ","b","e","e","f">>

\* p1: a salty, sugary product with ingredients; p3: a product scanned
\* without nutrition facts
Catalogue ==
  [p \in Products |->
     CASE p = "p1" ->
            [ingredients |-> MilkBeef,
             nutrition |-> [calories |-> 450, protein |-> 3, fiber |-> 0,
                            sodium |-> 700, sugar |-> 20, added_sugar |-> UNDEFINED,
                            fat |-> 20, saturated_fat |-> 8, trans_fat |-> 1]]
       [] OTHER -> [ingredients |-> <<>>, nutrition |-> NoNutrition]]

RegisterData == {[height |-> 175, weight |-> 70]}
ProfilePatches == {[allergies |-> <<Beef>>, health_goals |-> "lose_weight"]}

Init ==
  /\ users = [u \in Users |-> NoUser]
  /\ products = Catalogue
  /\ assessments = {}
  /\ nextId = 1
  /\ req = [r \in Requests |-> Idle]
  /\ resp = [op |-> "none", status |-> "ok"]

Next ==
  \/ \E u \in Users, data \in RegisterData : CreateUser(u, data)
  \/ \E u \in Users, data \in ProfilePatches : UpdateProfile(u, data)
  \/ \E r \in Requests, u \in Users, p \in Products : Begin(r, u, p)
  \/ \E r \in Requests : FindOne(r)
  \/ \E r \in Requests : Create(r)
  \/ \E u \in Users, id \in 1..MaxIds : DeleteAssessment(u, id)
  \/ \E u \in Users, p \in Products : HealthAssessProduct(u, p)

Spec == Init /\ [][Next]_vars

----------------------------------------------------------------------------
(* Feedback on stored assessments: one request slot, every kind of body *)

RatingInputs == {UNDEFINED, NULL, 0, 25, 30, 50, 60}
NotesInputs == {UndefinedText, NullText, Text(0, ""), Text(4, "nice"), Text(501, "long")}

NextFeedback ==
  \/ \E u \in Users, data \in RegisterData : CreateUser(u, data)
  \/ \E u \in Users : Begin("r1", u, "p1")
  \/ FindOne("r1")
  \/ Create("r1")
  \/ \E u \in Users, id \in 1..MaxIds, rating \in RatingInputs, notes \in NotesInputs :
       PutAssessment(u, id, rating, notes)

SpecFeedback == Init /\ [][NextFeedback]_vars

----------------------------------------------------------------------------
(* Scoring over many nutrition records and profiles: one user, one product *)

NutritionSamples ==
  {[calories |-> c, protein |-> pr, fiber |-> fi, sodium |-> so, sugar |-> su,
    added_sugar |-> UNDEFINED, fat |-> f.fat, saturated_fat |-> f.sat,
    trans_fat |-> tr] :
     c \in {120, 450}, pr \in {NULL, 3, 25}, fi \in {0, 6}, so \in {100, 700},
     su \in {2, 20}, f \in {[fat |-> 3, sat |-> 1], [fat |-> 20, sat |-> 8]},
     tr \in {0, 1}}

ScoreProfiles ==
  {[allergies |-> al, dietary_preferences |-> d, health_goals |-> g,
    health_conditions |-> hc] :
     al \in {<<>>, <<Milk>>, <<Milk, Beef>>}, d \in {"none", "vegan"}, g \in HealthGoalValues,
     hc \in {{}, {"hypertension", "diabetes", "heart_disease"}}}

FitnessGoals == {{}, {"muscle_gain"}}

InitScore ==
  /\ users = [u \in Users |-> NoUser]
  /\ \E n \in NutritionSamples :
       products = [p \in Products |->
                     IF p = "p1" THEN [ingredients |-> MilkBeef, nutrition |-> n]
                     ELSE [ingredients |-> <<>>, nutrition |-> NoNutrition]]
  /\ assessments = {}
  /\ nextId = 1
  /\ req = [r \in Requests |-> Idle]
  /\ resp = [op |-> "none", status |-> "ok"]

NextScore ==
  \/ \E data \in ScoreProfiles : CreateUser("u1", data)
  \/ Begin("r1", "u1", "p1")
  \/ FindOne("r1")
  \/ Create("r1")
  \/ \E fitnessGoals \in FitnessGoals : CalculateHealthScore("u1", "p1", fitnessGoals)

SpecScore == InitScore /\ [][NextScore]_vars

----------------------------------------------------------------------------
(* Physical profile: registration and profile updates only *)

PhysicalRegister == {[height |-> 175, weight |-> 70], [weight |-> 70]}
PhysicalPatches ==
  {[height |-> 160], [weight |-> 95], [BMI |-> 4000], [height |-> NULL],
   [height |-> 160, BMI |-> 4000]}

NextProfile ==
  \/ \E u \in Users, data \in PhysicalRegister : CreateUser(u, data)
  \/ \E u \in Users, data \in PhysicalPatches : UpdateProfile(u, data)

SpecProfile == Init /\ [][NextProfile]_vars

----------------------------------------------------------------------------
(* Removal of rows: assessments deleted by request, users deleted from the table *)

NextRemoval ==
  \/ \E u \in Users, data \in RegisterData : CreateUser(u, data)
  \/ \E u \in Users : Begin("r1", u, "p1")
  \/ FindOne("r1")
  \/ Create("r1")
  \/ \E u \in Users, id \in 1..MaxIds : DeleteAssessment(u, id)
  \/ \E u \in Users : RemoveUser(u)

SpecRemoval == Init /\ [][NextRemoval]_vars

----------------------------------------------------------------------------
(* The fat and sugar analyses over nutrition objects with and without
   added_sugar, for users with and without the conditions they look at *)

AnalysisSamples ==
  {[calories |-> 120, protein |-> 3, fiber |-> 0, sodium |-> 100, sugar |-> su,
    added_sugar |-> ad, fat |-> f, saturated_fat |-> sa, trans_fat |-> tr] :
     su \in {2, 8, 12, 20}, ad \in {UNDEFINED, NULL, 0, 8, 20},
     f \in {3, 16}, sa \in {1, 4, 6}, tr \in {0, 1}}

AnalysisProfiles ==
  {[health_conditions |-> hc] : hc \in {{}, {"diabetes"}, {"heart_disease"}}}

InitAnalysis ==
  /\ users = [u \in Users |-> NoUser]
  /\ \E n \in AnalysisSamples :
       products = [p \in Products |->
                     IF p = "p1" THEN [ingredients |-> <<>>, nutrition |-> n]
                     ELSE [ingredients |-> <<>>, nutrition |-> NoNutrition]]
  /\ assessments = {}
  /\ nextId = 1
  /\ req = [r \in Requests |-> Idle]
  /\ resp = [op |-> "none", status |-> "ok"]

NextAnalysis ==
  \/ \E data \in AnalysisProfiles : CreateUser("u1", data)
  \/ \E fitnessGoals \in FitnessGoals : CalculateHealthScore("u1", "p1", fitnessGoals)

SpecAnalysis == InitAnalysis /\ [][NextAnalysis]_vars

----------------------------------------------------------------------------
(* Allergen names and ingredient texts: the users of the model test and
   products that name a member of the allergen group *)

Nuts == <<"n","u","t","s">>
Dairy == <<"d","a","i","r","y">>
Almonds == <<"a","l","m","o","n","d","s">>
PeanutsMilk == <<"p","e","a","n","u","t","s",","," ","m","i","l","k">>
Chicken == <<"c","h","i","c","k","e","n">>

AllergyProfiles == {[allergies |-> <<Nuts>>], [allergies |-> <<Nuts, Dairy>>]}
IngredientTexts == {Almonds, PeanutsMilk, Chicken}

InitAllergy ==
  /\ users = [u \in Users |-> NoUser]
  /\ \E text \in IngredientTexts :
       products = [p \in Products |->
                     IF p = "p1"
                     THEN [ingredients |-> text,
                           nutrition |-> [calories |-> 120, protein |-> 22, fiber |-> 6,
                                          sodium |-> 100, sugar |-> 2,
                                          added_sugar |-> UNDEFINED, fat |-> 3,
                                          saturated_fat |-> 1, trans_fat |-> 0]]
                     ELSE [ingredients |-> <<>>, nutrition |-> NoNutrition]]
  /\ assessments = {}
  /\ nextId = 1
  /\ req = [r \in Requests |-> Idle]
  /\ resp = [op |-> "none", status |-> "ok"]

NextAllergy ==
  \/ \E u \in Users, data \in AllergyProfiles : CreateUser(u, data)
  \/ \E r \in Requests, u \in Users : Begin(r, u, "p1")
  \/ \E r \in Requests : FindOne(r)
  \/ \E r \in Requests : Create(r)

SpecAllergy == InitAllergy /\ [][NextAllergy]_vars

----------------------------------------------------------------------------
(* Matching of allergies and dietary preferences against ingredients: one
   user, every dietary preference, allergy lists set at registration and by
   profile updates *)

Peanuts == <<"p","e","a","n","u","t","s">>
UpperNut == <<"N","U","T">>
EmptyString == <<>>
OneSpace == <<" ">>
Wheat == <<"w","h","e","a","t">>
Tomato == <<"t","o","m","a","t","o">>
Cheese == <<"c","h","e","e","s","e">>
OliveOil == <<"o","l","i","v","e"," ","o","i","l">>
ChickenBreast == <<"C","h","i","c","k","e","n"," ","B","r","e","a","s","t">>

MatchingProfiles ==
  {[allergies |-> al, dietary_preferences |-> d] :
     al \in {<<>>, <<Nuts>>, <<Nuts, Dairy>>, <<Milk>>}, d \in DietaryValues}
\* PUT /api/users/profile accepts any array as allergies
MatchingPatches == {[allergies |-> <<OneSpace>>], [allergies |-> <<Beef, Milk>>]}
AskedIngredients == {Peanuts, UpperNut, Milk, Chicken, EmptyString}
AskedLists ==
  {<<Wheat, Tomato, Cheese>>, <<Wheat, Tomato, OliveOil>>, <<ChickenBreast>>}
MatchingTexts == {MilkBeef, PeanutsMilk, EmptyString}

InitMatching ==
  /\ users = [u \in Users |-> NoUser]
  /\ \E text \in MatchingTexts :
       products = [p \in Products |->
                     IF p = "p1"
                     THEN [ingredients |-> text,
                           nutrition |-> [calories |-> 120, protein |-> 22, fiber |-> 6,
                                          sodium |-> 100, sugar |-> 2,
                                          added_sugar |-> UNDEFINED, fat |-> 3,
                                          saturated_fat |-> 1, trans_fat |-> 0]]
                     ELSE [ingredients |-> <<>>, nutrition |-> NoNutrition]]
  /\ assessments = {}
  /\ nextId = 1
  /\ req = [r \in Requests |-> Idle]
  /\ resp = [op |-> "none", status |-> "ok"]

NextMatching ==
  \/ \E data \in MatchingProfiles : CreateUser("u1", data)
  \/ \E body \in MatchingPatches : UpdateProfile("u1", body)
  \/ \E ingredient \in AskedIngredients : HasAllergy("u1", ingredient)
  \/ \E ingredients \in AskedLists : IsCompatibleWith("u1", ingredients)
  \/ Begin("r1", "u1", "p1")
  \/ FindOne("r1")
  \/ Create("r1")

SpecMatching == InitMatching /\ [][NextMatching]_vars

----------------------------------------------------------------------------
(* The overall health score over histograms of up to three assessments per
   recommendation *)

Tiers == {"excellent", "good", "moderate", "avoid"}
\* the largest count a histogram holds for one recommendation
MaxCount == 3
Histograms == UNION {[D -> 1..MaxCount] : D \in SUBSET Tiers}

NextHealthScore == \E stats \in Histograms : OverallHealthScore(stats)

SpecHealthScore == Init /\ [][NextHealthScore]_vars

----------------------------------------------------------------------------
(* Statistics of stored assessments: two users, a product that rates
   'avoid' and one that rates 'excellent', feedback and deletion *)

StatsCatalogue ==
  [p \in Products |->
     IF p = "p1" THEN Catalogue["p1"]
     ELSE [ingredients |-> <<>>,
           nutrition |-> [calories |-> 120, protein |-> 22, fiber |-> 6,
                          sodium |-> 100, sugar |-> 2, added_sugar |-> UNDEFINED,
                          fat |-> 3, saturated_fat |-> 1, trans_fat |-> 0]]]

InitStats ==
  /\ users = [u \in Users |-> NoUser]
  /\ products = StatsCatalogue
  /\ assessments = {}
  /\ nextId = 1
  /\ req = [r \in Requests |-> Idle]
  /\ resp = [op |-> "none", status |-> "ok"]

NextStats ==
  \/ \E u \in Users, data \in RegisterData : CreateUser(u, data)
  \/ \E u \in Users, p \in Products : Begin("r1", u, p)
  \/ FindOne("r1")
  \/ Create("r1")
  \/ \E u \in Users, id \in 1..MaxIds : PutAssessment(u, id, 30, UndefinedText)
  \/ \E u \in Users, id \in 1..MaxIds : DeleteAssessment(u, id)
  \/ \E u \in Users : GetUserAssessmentStats(u)

SpecStats == InitStats /\ [][NextStats]_vars

----------------------------------------------------------------------------
(* Energy expenditure and macronutrients over sample profiles *)

EnergyProfiles ==
  {[weight |-> w, height |-> h, age |-> a, gender |-> g, activity_level |-> al,
    health_goals |-> hg] :
     w \in {60, 70}, h \in {165, 175}, a \in {NULL, 25, 30},
     g \in {"Male", "Female", "Other", NullString},
     al \in {"sedentary", "moderate", "very_active", NullString},
     hg \in {"lose_weight", "gain_muscle", "maintain"}}

\* calorie targets; 600 and 1000 put shares exactly between two grams
CalorieSamples == {600, 1000, 1500, 1800, 2000, 2200, 2500}
MacroGoals == HealthGoalValues \cup {"other"}

NextEnergy ==
  \/ \E profile \in EnergyProfiles : EnergyExpenditure(profile)
  \/ \E calories \in CalorieSamples, healthGoal \in MacroGoals :
       Macros(calories, healthGoal)

SpecEnergy == Init /\ [][NextEnergy]_vars

----------------------------------------------------------------------------
(* Access to stored assessments by id: two users read, rate and delete by id *)

OwnershipRatings == {UNDEFINED, 0, 30}
OwnershipNotes == {UndefinedText, Text(4, "nice")}

NextOwnership ==
  \/ \E u \in Users, data \in RegisterData : CreateUser(u, data)
  \/ \E u \in Users : Begin("r1", u, "p1")
  \/ FindOne("r1")
  \/ Create("r1")
  \/ \E u \in Users, id \in 1..MaxIds : GetAssessmentById(u, id)
  \/ \E u \in Users, id \in 1..MaxIds, rating \in OwnershipRatings,
        notes \in OwnershipNotes : PutAssessment(u, id, rating, notes)
  \/ \E u \in Users, id \in 1..MaxIds : DeleteAssessment(u, id)

SpecOwnership == Init /\ [][NextOwnership]_vars

----------------------------------------------------------------------------
(* Properties *)

\* the assessment data a request is about to insert
Pending == {req[r].data : r \in {x \in Requests : req[x].pc = "create"}}

\* C1: every personalized_score, stored or about to be stored, and every score
\* returned by calculateHealthScore is an integer between 0 and 100, whatever
\* the nutrition record and the profile.
ScoreBounds ==
  /\ \A a \in assessments : a.personalized_score \in 0..100
  /\ \A d \in Pending : d.personalized_score \in 0..100
  /\ resp.op = "calculateHealthScore" => resp.score \in 0..100

\* a stored score of 0 whose unclamped value was negative
ScoreClampedLow ==
  \E a \in assessments : a.personalized_score = 0 /\ a.assessment_summary.score < 0

\* C2: an assessment whose allergy-warning list is non-empty carries the
\* recommendation 'avoid', whatever its score, compatibility or goal.
AllergyDominance ==
  /\ \A a \in assessments : Len(a.allergy_warnings) > 0 => a.recommendation = "avoid"
  /\ \A d \in Pending : Len(d.allergy_warnings) > 0 => d.recommendation = "avoid"

\* an allergy warning on a product whose score alone would rate 'good' or better
AllergyOnGoodScore ==
  \E a \in assessments :
    /\ Len(a.allergy_warnings) > 0
    /\ a.assessment_summary.score >= 60
    /\ a.recommendation = "avoid"

\* C3: a call that finds a stored assessment for its pair returns that
\* assessment's id and leaves every stored row as it was, whatever happened to
\* the profile since the row was written.
IdempotentAssess ==
  [][\A r \in Requests :
       (/\ req[r].pc = "findOne"
        /\ RowsOf(req[r].user_id, req[r].product_id) # {}
        /\ req'[r] # req[r])
       => /\ req'[r] = Idle
          /\ assessments' = assessments
          /\ resp'.op = "assess" /\ resp'.status = "ok" /\ resp'.created = FALSE
          /\ \E a \in RowsOf(req[r].user_id, req[r].product_id) : resp'.id = a.id]_vars

\* an existing assessment was returned although the profile it was computed
\* from has changed since
ReturnedStaleAssessment ==
  /\ resp.op = "assess" /\ resp.status = "ok" /\ resp.created = FALSE
  /\ \E a \in assessments :
       /\ a.id = resp.id
       /\ users[a.user_id] # NoUser
       /\ a.health_recommendations #
            generatePersonalizedAssessment(products[a.product_id],
                                           users[a.user_id]).health_recommendations

\* C4: the store never holds two assessments for one (user, product) pair,
\* under every interleaving of the requests and from every entry point.
OneAssessmentPerPair ==
  \A u \in Users, p \in Products : Cardinality(RowsOf(u, p)) <= 1

\* two requests for one pair both reached create; one row is stored and the
\* other request is about to insert
SecondCreatePending ==
  \E r \in Requests :
    /\ req[r].pc = "create"
    /\ Cardinality(RowsOf(req[r].user_id, req[r].product_id)) = 1

\* C5: no assessment call answers with an error caused by the uniqueness
\* collision of two concurrent creates.
CollisionNeverSurfaces ==
  ~(resp.op = "assess" /\ resp.status = "error" /\ resp.error = "Validation error")

\* C6: a request for a product without nutrition facts ends in an error,
\* stores nothing and leaves the stored assessments as they were; no stored
\* assessment belongs to a product without nutrition facts.
MissingNutritionFails ==
  [][/\ \A r \in Requests :
          (/\ req[r].pc = "findOne"
           /\ products[req[r].product_id].nutrition = NoNutrition
           /\ req'[r] # req[r])
          => /\ req'[r] = Idle
             /\ resp'.op = "assess" /\ resp'.status = "error"
             /\ assessments' = assessments
     /\ (resp'.op = "assessProduct" /\ resp' # resp) => assessments' = assessments
     /\ \A a \in assessments' : products[a.product_id].nutrition # NoNutrition]_vars

\* the request for such a product has failed while another assessment is stored
MissingNutritionFailed ==
  /\ resp.op = "assess" /\ resp.status = "error"
  /\ resp.error = "Product nutrition data not available"
  /\ assessments # {}

\* the columns of an assessment that feedback must leave alone
Computed(a) ==
  [id |-> a.id, user_id |-> a.user_id, product_id |-> a.product_id,
   personalized_score |-> a.personalized_score, recommendation |-> a.recommendation,
   allergy_warnings |-> a.allergy_warnings, dietary_compatible |-> a.dietary_compatible,
   health_recommendations |-> a.health_recommendations,
   assessment_summary |-> a.assessment_summary, confidence_score |-> a.confidence_score]

\* C7: once stored, an assessment keeps its computed fields, user_id and
\* product_id through every later step; feedback changes at most user_rating
\* and user_notes.
ComputedFieldsFrozen ==
  [][\A a \in assessments : \A b \in assessments' :
       b.id = a.id => Computed(b) = Computed(a)]_vars

\* an assessment that has received both a rating and notes
FeedbackAttached ==
  \E a \in assessments : a.user_rating = 30 /\ a.user_notes = Text(4, "nice")

\* a rating as the feedback contract wants it: an integer from 1 to 5 (in tenths)
IntegerOneToFive(rating) == rating \in {10, 20, 30, 40, 50}

\* C8: a feedback request that carries a rating which is not an integer from 1
\* to 5 is answered with an error, and no stored rating or note changes.
InvalidRatingRejected ==
  [][(/\ resp'.op = "updateAssessment"
      /\ resp'.user_rating # UNDEFINED
      /\ ~IntegerOneToFive(resp'.user_rating))
     => (resp'.status = "error" /\ assessments' = assessments)]_vars

\* the owner sent rating 0 together with notes for a stored assessment; the
\* request was refused and the notes are still empty
InvalidRatingWithNotesRefused ==
  /\ resp.op = "updateAssessment" /\ resp.status = "error"
  /\ resp.user_rating = 0 /\ resp.user_notes = Text(4, "nice")
  /\ \E a \in assessments :
       a.id = resp.id /\ a.user_id = resp.caller /\ a.user_notes = NullText

\* C9: a step that changes a user's profile leaves every stored assessment
\* unchanged.
ProfileUpdateKeepsAssessments ==
  [][\A u \in Users :
       (users[u] # NoUser /\ users'[u] # users[u]) => assessments' = assessments]_vars

\* the profile now lists an allergy while the user's stored assessment still
\* carries the recommendations computed without it
AssessmentPredatesProfile ==
  \E a \in assessments :
    /\ users[a.user_id] # NoUser
    /\ Len(users[a.user_id].allergies) > 0
    /\ a.health_recommendations = <<"nutrition:high_sodium", "nutrition:high_sugar">>

\* C10: the stored BMI of every user is the BMI of the current height and
\* weight, and is absent when either is absent.
StoredBMIIsCurrent ==
  \A u \in Users :
    users[u] # NoUser =>
      users[u].BMI = calculateBMI(users[u].height, users[u].weight)

\* C11: a stored assessment leaves the store only in a step that answers a
\* delete request of its owner for that assessment.
OnlyOwnerDeletes ==
  [][\A a \in assessments :
       (\A b \in assessments' : b.id # a.id)
       => /\ resp'.op = "deleteAssessment" /\ resp'.status = "ok"
          /\ resp'.caller = a.user_id /\ resp'.id = a.id]_vars

\* the profile and the nutrition record a stored assessment was computed from,
\* in runs where neither changes after the assessment
ProfileOf(a) == users[a.user_id]
NutritionOf(a) == products[a.product_id].nutrition
\* the score before personalization and the two flat penalties
BaseOf(a) == NutritionFact_calculateHealthScore(NutritionOf(a))
FlatPenalties(a) ==
  (IF Len(a.allergy_warnings) > 0 THEN 30 ELSE 0)
  + (IF a.dietary_compatible THEN 0 ELSE 20)

\* C12: without allergy warnings the stored recommendation is the tier of the
\* stored personalized_score.
TierOfStoredScore ==
  \A a \in assessments :
    Len(a.allergy_warnings) = 0 => a.recommendation = Tier(a.personalized_score)

\* an assessment without warnings whose score the clamp brought down to 100
ClampedAboveTier ==
  \E a \in assessments :
    /\ Len(a.allergy_warnings) = 0
    /\ a.assessment_summary.score > 100 /\ a.personalized_score = 100
    /\ a.recommendation = "excellent"

\* C13: the score that is personalized is the base-100 aggregate of
\* calculateHealthScore: a stored assessment with no penalty and no goal
\* adjustment carries it, and calculateHealthScore returns the value of
\* NutritionFact.calculateHealthScore.
BaseIsAggregate ==
  /\ \A a \in assessments :
       (ProfileOf(a) # NoUser /\ FlatPenalties(a) = 0
        /\ ProfileOf(a).health_goals = "maintain")
       => a.personalized_score =
            calculateHealthScore(HealthProfile(ProfileOf(a), {}), NutritionOf(a))
  /\ resp.op = "calculateHealthScore"
       => resp.score = NutritionFact_calculateHealthScore(products["p1"].nutrition)

\* the goal adjustment as a difference
GoalDelta(a) == adjustForHealthGoals(0, NutritionOf(a), ProfileOf(a))

\* C14: personalized_score is the clamp of base - 30 (any warning) - 20 (not
\* compatible) + goal adjustment, summed without a clamp in between.
SumThenClamp ==
  \A a \in assessments :
    ProfileOf(a) # NoUser =>
      /\ a.assessment_summary.score = BaseOf(a) - FlatPenalties(a) + GoalDelta(a)
      /\ a.personalized_score = Clamp0to100(a.assessment_summary.score)

\* two warnings and an incompatible diet took the running score below 0 and
\* the goal bonus brought the final score back above 0
BonusAfterNegative ==
  \E a \in assessments :
    /\ ProfileOf(a) # NoUser
    /\ Len(a.allergy_warnings) = 2 /\ ~a.dietary_compatible
    /\ BaseOf(a) - FlatPenalties(a) < 0
    /\ a.personalized_score > 0

\* the adjustments of section 5, written as a table
GoalTable(goal, n) ==
  IF goal = "lose_weight"
  THEN (IF JsGt(n.calories, 300) THEN -10 ELSE 0) + (IF JsGt(n.protein, 15) THEN 10 ELSE 0)
       + (IF JsGt(n.sugar, 10) THEN -15 ELSE 0)
  ELSE IF goal = "gain_muscle"
  THEN (IF JsGt(n.protein, 20) THEN 15 ELSE 0) + (IF JsLt(n.protein, 5) THEN -10 ELSE 0)
  ELSE IF goal = "improve_health"
  THEN (IF JsGt(n.fiber, 5) THEN 10 ELSE 0) + (IF JsGt(n.sodium, 400) THEN -10 ELSE 0)
  ELSE 0

\* C15: the goal step changes the score by exactly the tabled amounts, each
\* independent and additive, and by nothing for 'maintain'.
GoalAdjustmentExact ==
  \A a \in assessments :
    ProfileOf(a) # NoUser =>
      a.assessment_summary.score - (BaseOf(a) - FlatPenalties(a))
        = GoalTable(ProfileOf(a).health_goals, NutritionOf(a))

\* a lose_weight assessment on which all three adjustments applied
AllThreeLoseWeight ==
  \E a \in assessments :
    /\ ProfileOf(a) # NoUser /\ ProfileOf(a).health_goals = "lose_weight"
    /\ NutritionOf(a).calories > 300 /\ NutritionOf(a).protein > 15
    /\ NutritionOf(a).sugar > 10
    /\ a.assessment_summary.score = BaseOf(a) - FlatPenalties(a) - 15

\* C16: a null nutrient triggers no goal adjustment: with protein null a
\* gain_muscle assessment carries no 'protein < 5' penalty.
NullProteinNotPenalised ==
  \A a \in assessments :
    (ProfileOf(a) # NoUser /\ ProfileOf(a).health_goals = "gain_muscle"
     /\ NutritionOf(a).protein = NULL)
    => a.assessment_summary.score = BaseOf(a) - FlatPenalties(a)

FatTable(n, hasHeartDisease) ==
  (IF n.trans_fat > 0 THEN (IF hasHeartDisease THEN 25 ELSE 15) ELSE 0)
  + (IF n.saturated_fat > 5 THEN (IF hasHeartDisease THEN 15 ELSE 10)
     ELSE IF n.saturated_fat > 3 THEN (IF hasHeartDisease THEN 8 ELSE 5) ELSE 0)
  + (IF n.fat > 15 THEN 5 ELSE 0)

\* C18: the fat penalty is the sum of the trans-fat, saturated-fat and
\* total-fat penalties; trans 1, saturated 6, total 16 without heart disease
\* gives 30.
FatPenaltyAdditive ==
  (resp.op = "calculateHealthScore" /\ users["u1"] # NoUser)
  => resp.breakdown.fat.penalty =
       FatTable(products["p1"].nutrition,
                "heart_disease" \in users["u1"].health_conditions)

\* the example of the claim has been analysed and got 30
FatExampleGivesThirty ==
  /\ resp.op = "calculateHealthScore" /\ users["u1"] # NoUser
  /\ "heart_disease" \notin users["u1"].health_conditions
  /\ products["p1"].nutrition.trans_fat = 1
  /\ products["p1"].nutrition.saturated_fat = 6
  /\ products["p1"].nutrition.fat = 16
  /\ resp.breakdown.fat.penalty = 30

\* the sugar penalty tiers on a given amount
SugarTable(amount, hasDiabetes) ==
  IF amount > 15 THEN (IF hasDiabetes THEN 30 ELSE 20)
  ELSE IF amount > 10 THEN (IF hasDiabetes THEN 20 ELSE 12)
  ELSE IF amount > 5 THEN (IF hasDiabetes THEN 10 ELSE 5)
  ELSE 0

\* C19: the sugar analysis uses added_sugar with the 25 g limit whenever
\* added_sugar is present, the value 0 included, and total sugar with the
\* 50 g limit only when it is absent.
AddedSugarWhenPresent ==
  (resp.op = "calculateHealthScore" /\ users["u1"] # NoUser)
  => LET n == products["p1"].nutrition
         present == n.added_sugar # NULL /\ n.added_sugar # UNDEFINED
         hasDiabetes == "diabetes" \in users["u1"].health_conditions
     IN /\ resp.breakdown.sugar.limit = IF present THEN 25 ELSE 50
        /\ resp.breakdown.sugar.penalty =
             SugarTable(IF present THEN n.added_sugar ELSE n.sugar, hasDiabetes)

\* C20: for a user allergic to 'nuts', a product whose ingredient text names
\* almonds is detected: hasAllergy is true for the ingredient, a warning is
\* stored and the recommendation is 'avoid'.
AllergenGroupDetected ==
  \A a \in assessments :
    (/\ ProfileOf(a) # NoUser
     /\ \E k \in 1..Len(ProfileOf(a).allergies) : ProfileOf(a).allergies[k] = Nuts
     /\ Includes(ToLowerCase(products[a.product_id].ingredients), Almonds))
    => /\ hasAllergy(ProfileOf(a), Almonds)
       /\ Len(a.allergy_warnings) > 0
       /\ a.recommendation = "avoid"

\* hay contains needle, by comparing slices
Contains(hay, needle) ==
  \E i \in 1..(Len(hay) - Len(needle) + 1) : SubSeq(hay, i, i + Len(needle) - 1) = needle
\* one of the two lowercased strings contains the other
EitherContains(a, b) ==
  Contains(ToLowerCase(a), ToLowerCase(b)) \/ Contains(ToLowerCase(b), ToLowerCase(a))

ExpectedWarnings(allergies, text) ==
  LET hits == SelectSeq(allergies,
                        LAMBDA t : Contains(ToLowerCase(text), ToLowerCase(t)))
  IN [i \in 1..Len(hits) |->
        [allergen |-> hits[i], severity |-> "high",
         message |-> <<"Contains", hits[i], "avoid this product">>]]

\* C22: the warnings of an assessment are exactly one per allergy of the
\* user that occurs in the ingredient text, case ignored, in the order of the
\* allergy list; there is none when the user has no allergies or the product
\* has no ingredient text.
WarningsAreSubstringMatches ==
  \A r \in Requests :
    req[r].pc = "create" =>
      LET text == products[req[r].product_id].ingredients
          warnings == req[r].data.allergy_warnings
      IN /\ warnings = ExpectedWarnings(req[r].user.allergies, text)
         /\ (Len(req[r].user.allergies) = 0 \/ text = EmptyString) => warnings = <<>>

\* C23: isCompatibleWith is true for 'none' and 'keto'; for the other
\* preferences it is false exactly when a forbidden term occurs in the
\* lowercased, space-joined ingredients; what a vegan may eat a veg user may
\* eat; vegan rejects wheat, tomato, cheese and accepts wheat, tomato, olive oil.
DietCompatibility ==
  (resp.op = "isCompatibleWith" /\ users[resp.user] # NoUser)
  => LET pref == users[resp.user].dietary_preferences
         text == ToLowerCase(JoinSpace(resp.ingredients))
         forbidden == restrictions(pref)
     IN /\ pref \in {"none", "keto"} => resp.result
        /\ pref \in {"veg", "vegan", "paleo", "gluten_free", "dairy_free"}
             => resp.result = ~ \E k \in 1..Len(forbidden) : Contains(text, forbidden[k])
        /\ (pref = "vegan" /\ resp.result)
             => isCompatibleWith([dietary_preferences |-> "veg"], resp.ingredients)
        /\ pref = "vegan"
             => /\ resp.ingredients = <<Wheat, Tomato, Cheese>> => ~resp.result
                /\ resp.ingredients = <<Wheat, Tomato, OliveOil>> => resp.result

\* a veg user asked about 'Chicken Breast' and was refused: the term matched
\* inside an ingredient, whatever its case
ForbiddenTermInsideIngredient ==
  /\ resp.op = "isCompatibleWith" /\ users[resp.user] # NoUser
  /\ users[resp.user].dietary_preferences = "veg"
  /\ resp.ingredients = <<ChickenBreast>> /\ ~resp.result

\* the count a histogram holds for a recommendation
CountIn(stats, k) == IF k \in DOMAIN stats THEN stats[k] ELSE 0

\* C24: the overall health score is the weighted average 100/75/50/25 of the
\* histogram rounded to the nearest integer, 0 without assessments, within
\* 25..100 with at least one, and the same in both copies.
OverallScoreIsWeightedAverage ==
  resp.op = "overallHealthScore"
  => LET e == CountIn(resp.stats, "excellent")
         g == CountIn(resp.stats, "good")
         m == CountIn(resp.stats, "moderate")
         a == CountIn(resp.stats, "avoid")
         total == e + g + m + a
         weighted == 100 * e + 75 * g + 50 * m + 25 * a
     IN /\ total = 0 => resp.service = 0
        /\ total > 0 => /\ 2 * resp.service * total <= 2 * weighted + total
                        /\ 2 * weighted + total < 2 * (resp.service + 1) * total
                        /\ resp.service \in 25..100
        /\ resp.controller = resp.service

\* one excellent and one good assessment: the average 87.5 was rounded to 88
HalfRoundedUp ==
  /\ resp.op = "overallHealthScore"
  /\ resp.stats = [k \in {"excellent", "good"} |-> 1]
  /\ resp.service = 88

\* C25: the statistics of a user count, per recommendation, the stored
\* assessments of that user and of nobody else, totalScans is their number,
\* and a feedback update leaves every user's histogram as it was.
StatsCountOwnAssessments ==
  [][/\ resp'.op = "getUserStats"
          => LET mine == {a \in assessments' : a.user_id = resp'.caller} IN
               /\ \A k \in Tiers :
                    CountIn(resp'.recommendations, k)
                      = Cardinality({a \in mine : a.recommendation = k})
               /\ DOMAIN resp'.recommendations \subseteq Tiers
               /\ resp'.totalScans = Cardinality(mine)
     /\ resp'.op = "updateAssessment"
          => \A u \in Users : getRecommendationStats(u)' = getRecommendationStats(u)]_vars

\* a user was answered with one assessment while the other user has one too
StatsBesideOtherUser ==
  /\ resp.op = "getUserStats" /\ resp.totalScans = 1
  /\ \E a \in assessments : a.user_id # resp.caller

\* the profile of a response is the example (weight, height, age, gender)
IsExample(weight, height, age, gender) ==
  /\ resp.op = "energy"
  /\ resp.profile.weight = weight /\ resp.profile.height = height
  /\ resp.profile.age = age /\ resp.profile.gender = gender

\* C26: calculateBMR(70, 175, 25, Male) is 1674.75 and
\* calculateBMR(60, 165, 30, Female) is about 1345.25 (within half a kcal).
BMRExamplesAsStated ==
  /\ IsExample(70, 175, 25, "Male") => resp.bmr = 167475 /\ resp.mifflin = 167475
  /\ IsExample(60, 165, 30, "Female")
       => resp.bmr \in (134525 - 50)..(134525 + 50)

\* C26 as amended: the rate is 10*weight + 6.25*height - 5*age, +5 for Male
\* and -161 for Female, which makes calculateBMR(70, 175, 25, Male) 1673.75
\* and calculateBMR(60, 165, 30, Female) 1320.25.
BMRExamples ==
  (resp.op = "energy" /\ resp.profile.age # NULL)
  => LET q == resp.profile
         base100 == 100 * (10 * q.weight - 5 * q.age) + 625 * q.height
     IN /\ q.gender = "Male" => resp.bmr = base100 + 500 /\ resp.mifflin = base100 + 500
        /\ q.gender = "Female"
             => resp.bmr = base100 - 16100 /\ resp.mifflin = base100 - 16100
        /\ IsExample(70, 175, 25, "Male") => resp.bmr = 167375
        /\ IsExample(60, 165, 30, "Female") => resp.bmr = 132025

\* the male example has been computed
MaleExampleComputed == IsExample(70, 175, 25, "Male") /\ resp.bmr = 167375

\* C27: for a profile with age, weight, height and gender, the HealthService
\* path and User.calculateDailyCalories give the same TDEE, with -78 for a
\* gender other than Male and Female and the same default multiplier.
EnergyPathsAgree ==
  (/\ resp.op = "energy"
   /\ resp.profile.age # NULL /\ resp.profile.gender # NullString)
  => /\ resp.tdee = resp.dailyCalories
     /\ resp.profile.gender \notin {"Male", "Female"}
          => resp.mifflin
               = MifflinBase(resp.profile.weight, resp.profile.height, resp.profile.age)
                 - 7800

\* the nearest integer to a / b, halves upwards, for a >= 0 and b > 0
IsRounded(n, a, b) == 2 * n * b <= 2 * a + b /\ 2 * a + b < 2 * (n + 1) * b

SummaryConsistent ==
  \A a \in assessments :
    /\ a.assessment_summary.score = a.personalized_score
    /\ a.assessment_summary.closing = a.recommendation

\* the fields a response to a request by id may carry without the row
RequestFields == {"op", "status", "error", "caller", "id", "user_rating", "user_notes"}

\* C30: a read, feedback or delete request that names an assessment of
\* another user is answered 'not found' (or refused by the validators of the
\* feedback route), carries nothing of the row, and leaves the row as it was.
OwnershipIsolation ==
  [][\A a \in assessments :
       (/\ resp'.op \in {"getAssessment", "updateAssessment", "deleteAssessment"}
        /\ resp'.id = a.id /\ resp'.caller # a.user_id)
       => /\ resp'.status = "error"
          /\ resp'.error =
               IF resp'.op = "updateAssessment"
                  /\ ~(RatingPasses(resp'.user_rating) /\ NotesPass(resp'.user_notes))
               THEN "Validation failed" ELSE "Assessment not found"
          /\ DOMAIN resp' \subseteq RequestFields
          /\ a \in assessments']_vars

\* a user asked for the assessment of another user by its id and was told
\* that there is none
ForeignReadRefused ==
  /\ resp.op = "getAssessment" /\ resp.status = "error"
  /\ \E a \in assessments : a.id = resp.id /\ a.user_id # resp.caller

============================================================================
